---- MODULE Spec2Model ----
(***************************************************************************)
(* A model of quanta-clusters.py: the token renderer tokens_to_html, the   *)
(* cluster ranker (cluster_to_tokens / new_index_old_index) and the        *)
(* session-state navigation of the Streamlit script.                       *)
(*                                                                         *)
(* Strings are sequences of one-character strings.  The markup pieces the  *)
(* code writes as literals are kept as single lexemes, so an html value is *)
(* a sequence whose elements are either a markup literal of the source or  *)
(* one character of a token.                                               *)
(***************************************************************************)
EXTENDS Integers, Sequences, FiniteSets, TLC

VARIABLES
    tokens,               \* tokens_to_html: the argument `tokens`
    max_len,              \* tokens_to_html: the argument `max_len`
    html_out,             \* tokens_to_html: the returned string
    rpc,                  \* tokens_to_html: "call" before, "done" after the call
    labels_list,          \* script: labels_list of the selected n_clusters
    cluster_to_tokens,    \* script: the insertion-ordered dict, as a sequence of [k, v]
    new_index_old_index,  \* script: the rank table, a function rank -> label
    kpc,                  \* ranker: "load", "grouped", "ranked"
    clusters,             \* script: the loaded cluster document, key -> label list
    n_clusters,           \* script: the selected key (a decimal string)
    session_state,        \* st.session_state: a function key -> value
    exc,                  \* the exception the last script run ended with
    last_event,           \* history: the event that caused the last script run
    idx_before,           \* history: the cluster index when that event arrived
    moved                 \* history: keys whose index prev / next has changed

vars == <<tokens, max_len, html_out, rpc, labels_list, cluster_to_tokens,
          new_index_old_index, kpc, clusters, n_clusters, session_state,
          exc, last_event, idx_before, moved>>

renderVars == <<tokens, max_len, html_out, rpc>>
rankVars == <<labels_list, cluster_to_tokens, new_index_old_index, kpc>>
uiVars == <<clusters, n_clusters, session_state, exc, last_event, idx_before, moved>>

----------------------------------------------------------------------------
(* Bounds of the model *)

MaxTokens == 3      \* longest token sequence of the sequence inputs
MaxTokLen == 3      \* longest token of the single-token inputs
MaxMaxLen == 3      \* largest max_len
MaxSamples == 4     \* longest label list given to the ranker
MaxLabel == 2       \* labels are 0..MaxLabel
MaxUISamples == 2   \* longest label list in a cluster document

----------------------------------------------------------------------------
(* Generic helpers *)

Min(a, b) == IF a < b THEN a ELSE b
Max(a, b) == IF a > b THEN a ELSE b

SeqsUpTo(S, n) == UNION {[1..k -> S] : k \in 0..n}

RECURSIVE Flatten(_)
Flatten(ss) == IF ss = <<>> THEN <<>> ELSE Head(ss) \o Flatten(Tail(ss))

Repeat(x, n) == [i \in 1..n |-> x]

Reverse(s) == [i \in 1..Len(s) |-> s[Len(s) + 1 - i]]

----------------------------------------------------------------------------
(* tokens_to_html *)

VT == "U+000B"       \* the vertical tab character
BACKTICK == "U+0060" \* the backtick character
GLYPH == "U+23CE"    \* the return symbol

\* line 15
newline_tokens == {<<"\n">>, <<"\r">>, <<"\r", "\n">>, <<VT>>, <<"\f">>}

ELLIPSIS == "<span>...</span>"
SPAN_BORDER == "<span style=\"border: 1px solid #DDD; "
BACKGROUND == "background-color: "
PRE_WRAP == "; white-space: pre-wrap;\">"
SPAN_END == "</span>"
BR == "<br>"
PLACEHOLDER == "CONTEXT NOT LOADED FOR SECURITY REASONS SINCE IT CONTAINS HTML CODE (could contain javascript)."

\* tokens[:max_len] : the first max_len tokens
SliceFirst(toks, m) == SubSeq(toks, 1, IF m < Len(toks) THEN m ELSE Len(toks))

\* tokens[-max_len:] : a negative start counts from the end and is clamped
\* at 0; -0 is 0, the whole list
SliceLast(toks, m) ==
    LET start == IF m > 0 THEN Max(Len(toks) - m, 0) ELSE 0
    IN  SubSeq(toks, start + 1, Len(toks))

\* line 22
background_color(i, n) == IF i # n - 1 THEN "white" ELSE "#FF9999"

\* line 24: all([c in newline_tokens for c in token])
AllNewline(token) == \A j \in 1..Len(token) : <<token[j]>> \in newline_tokens

\* str.replace(old, new) for a one-character old
RECURSIVE Replace(_, _, _)
Replace(s, old, new) ==
    IF s = <<>> THEN <<>>
    ELSE (IF Head(s) = old THEN new ELSE <<Head(s)>>) \o Replace(Tail(s), old, new)

\* lines 35-39 followed by token.replace("\\", "\\\\")
EscapeBackslashLast(token) ==
    LET t1 == Replace(token, "$", <<"\\", "$">>)
        t2 == Replace(t1, "&", <<"&", "a", "m", "p", ";">>)
        t3 == Replace(t2, "_", <<"\\", "_">>)
        t4 == Replace(t3, "*", <<"\\", "*">>)
        t5 == Replace(t4, BACKTICK, <<"\\", BACKTICK>>)
    IN  Replace(t5, "\\", <<"\\", "\\">>)

\* lines 35-39
Escape(token) ==
    LET t1 == Replace(token, "$", <<"\\", "$">>)
        t2 == Replace(t1, "&", <<"&", "a", "m", "p", ";">>)
        t3 == Replace(t2, "_", <<"\\", "_">>)
        t4 == Replace(t3, "*", <<"\\", "*">>)
    IN  Replace(t4, BACKTICK, <<"\\", BACKTICK>>)

\* line 26
token_rep(token) == Repeat(GLYPH, Len(token))

\* line 27, a single <br> whatever the token's length
BrsOnce(token) == <<BR>>

\* line 27
brs(token) == Repeat(BR, Len(token))

\* lines 22-44: what one iteration appends to html
Cell(i, n, token) ==
    IF AllNewline(token)
    THEN <<SPAN_BORDER, BACKGROUND, background_color(i, n), PRE_WRAP>>
         \o token_rep(token) \o <<SPAN_END>> \o brs(token)
    ELSE <<SPAN_BORDER, BACKGROUND, background_color(i, n), PRE_WRAP>>
         \o Escape(token) \o <<SPAN_END>>

\* line 23 with = in place of += : txt is the last token alone
TxtLastOnly(toks) == IF toks = <<>> THEN <<>> ELSE toks[Len(toks)]

\* lines 17, 23: txt after the loop over toks
Txt(toks) == Flatten(toks)

\* line 45: "</" in txt
HasCloseTag(txt) == \E j \in 1..(Len(txt) - 1) : txt[j] = "<" /\ txt[j + 1] = "/"

\* lines 13-48
tokens_to_html(toks, m) ==
    LET head == IF Len(toks) > m THEN <<ELLIPSIS>> ELSE <<>>
        win == SliceLast(toks, m)
        html == head \o Flatten([i \in 1..Len(win) |-> Cell(i - 1, Len(win), win[i])])
    IN  IF HasCloseTag(Txt(win)) THEN <<PLACEHOLDER>> ELSE html

\* The inputs of the renderer: token sequences over a few tokens (truncation,
\* the "</" check), and single tokens over the characters that are escaped
\* or are line breaks.
SeqTokens == {<<>>, <<"a">>, <<"<">>, <<"/">>, <<"<", "/">>, <<"\n">>, <<"a", "$">>}
EscChars == {"a", "$", "&", "_", "*", BACKTICK, "\n"}
NewlineChars == {"\n", "\r", VT, "\f"}
SeqInputs == SeqsUpTo(SeqTokens, MaxTokens)
TokenInputs ==
    {<<t>> : t \in SeqsUpTo(EscChars, MaxTokLen) \cup SeqsUpTo(NewlineChars, MaxTokLen)}

\* line 13: max_len=150
DefaultMaxLen == 150

\* html = tokens_to_html(tokens, max_len)
Render ==
    /\ rpc = "call"
    /\ html_out' = tokens_to_html(tokens, max_len)
    /\ rpc' = "done"
    /\ UNCHANGED <<tokens, max_len, rankVars, uiVars>>

----------------------------------------------------------------------------
(* The ranker: lines 75-86 *)

\* lines 76-78: cluster_to_tokens after the loop; a dict keeps its keys in
\* insertion order, so it is a sequence of entries [k, v]
RECURSIVE GroupFrom(_, _, _)
GroupFrom(labels, i, d) ==
    IF i >= Len(labels) THEN d
    ELSE LET cluster_id == labels[i + 1]
             at == {j \in 1..Len(d) : d[j].k = cluster_id}
         IN  IF at = {}
             THEN GroupFrom(labels, i + 1, Append(d, [k |-> cluster_id, v |-> <<i>>]))
             ELSE LET j == CHOOSE x \in at : TRUE
                  IN  GroupFrom(labels, i + 1, [d EXCEPT ![j].v = Append(@, i)])

Group(labels) == GroupFrom(labels, 0, <<>>)

\* iterating the dict: its keys in insertion order
Keys(d) == [j \in 1..Len(d) |-> d[j].k]

\* cluster_to_tokens[k]
Lookup(d, key) == d[CHOOSE j \in 1..Len(d) : d[j].k = key].v

\* line 84: key=lambda k: len(cluster_to_tokens[k])
SizeKey(d, key) == Len(Lookup(d, key))

\* a stable ascending sort of ks by SizeKey: each element goes behind the
\* elements whose key is not larger
RECURSIVE InsertStable(_, _, _)
InsertStable(d, x, sorted) ==
    IF sorted = <<>> THEN <<x>>
    ELSE IF SizeKey(d, Head(sorted)) <= SizeKey(d, x)
         THEN <<Head(sorted)>> \o InsertStable(d, x, Tail(sorted))
         ELSE <<x>> \o sorted

RECURSIVE StableSort(_, _)
StableSort(d, ks) ==
    IF ks = <<>> THEN <<>>
    ELSE InsertStable(d, ks[Len(ks)], StableSort(d, SubSeq(ks, 1, Len(ks) - 1)))

\* line 84 without reverse=True
SortedAscending(d) == StableSort(d, Keys(d))

\* line 84 as sorted(...)[::-1]
SortedThenReversed(d) == Reverse(StableSort(d, Keys(d)))

\* line 84: sorted(cluster_to_tokens, key=..., reverse=True); a reverse sort
\* reverses the list, sorts it stably and reverses the result
SortedReverse(d) == Reverse(StableSort(d, Reverse(Keys(d))))

\* lines 81-86: {i: cluster_id for i, cluster_id in enumerate(sorted(...))}
RankTable(d) ==
    LET s == SortedReverse(d) IN [i \in 0..(Len(s) - 1) |-> s[i + 1]]

NoTable == [i \in {} |-> 0]

\* lines 76-78
GroupStep ==
    /\ kpc = "load"
    /\ cluster_to_tokens' = Group(labels_list)
    /\ kpc' = "grouped"
    /\ UNCHANGED <<labels_list, new_index_old_index, renderVars, uiVars>>

\* lines 81-86
RankStep ==
    /\ kpc = "grouped"
    /\ new_index_old_index' = RankTable(cluster_to_tokens)
    /\ kpc' = "ranked"
    /\ UNCHANGED <<labels_list, cluster_to_tokens, renderVars, uiVars>>

----------------------------------------------------------------------------
(* The script: lines 62-135.  Streamlit runs the whole script once when the *)
(* page is opened and once more after every widget event; a button's        *)
(* on_click callback runs before that rerun.  st.session_state lives        *)
(* across the reruns of a session.                                          *)

\* A key of the cluster document is a decimal string: a sequence of digits
UIKeys == {<<2>>, <<1, 0>>}
UILabelLists == SeqsUpTo({0, 1}, MaxUISamples)
ClusterDocuments == [UIKeys -> {<<l, "other_info">> : l \in UILabelLists}]

\* int(s)
RECURSIVE IntOf(_)
IntOf(s) == IF s = <<>> THEN 0 ELSE 10 * IntOf(SubSeq(s, 1, Len(s) - 1)) + s[Len(s)]

\* line 67: sorted(list(clusters.keys()), key=int); the keys stand for
\* different integers, so the order is the one increasing sequence of them
cluster_sizes ==
    CHOOSE s \in [1..Cardinality(DOMAIN clusters) -> DOMAIN clusters] :
        \A i, j \in DOMAIN s : i < j => IntOf(s[i]) < IntOf(s[j])

\* line 68
default_n_clusters ==
    IF \E i \in DOMAIN cluster_sizes : cluster_sizes[i] = <<4, 0, 0>>
    THEN <<4, 0, 0>> ELSE cluster_sizes[1]

\* one key for every n_clusters
session_key_shared(n) == <<"cluster_idx_", <<>>>>

\* line 90: f"cluster_idx_{n_clusters}"
session_key(n) == <<"cluster_idx_", n>>

\* st.session_state[key] = value
Put(ss, key, value) ==
    [x \in DOMAIN ss \cup {key} |-> IF x = key THEN value ELSE ss[x]]

\* the end of a run: a keyed widget that the run did not render loses its
\* entry in st.session_state.  Every key the script stores (line 92) is the
\* key of the selectbox of lines 95-100.
RemoveStaleWidgets(ss, rendered) == [x \in DOMAIN ss \cap rendered |-> ss[x]]

\* lines 104-105 without the test
prev_unclamped(ss, n) == Put(ss, session_key(n), ss[session_key(n)] - 1)

\* lines 103-105
prev_cluster(ss, n) ==
    IF ss[session_key(n)] > 0
    THEN Put(ss, session_key(n), ss[session_key(n)] - 1) ELSE ss

\* lines 107-109
next_cluster(ss, n) ==
    IF ss[session_key(n)] < IntOf(n) - 1
    THEN Put(ss, session_key(n), ss[session_key(n)] + 1) ELSE ss

\* lines 69-135: one run of the script with n selected in the first
\* selectbox and ss the session state the run starts from.  The loop of
\* lines 135-142 writes the page only; line 132 raises KeyError when
\* current_idx is no key of new_index_old_index.
ScriptRun(n, ss) ==
    LET labels == clusters[n][1]
        d == Group(labels)
        table == RankTable(d)
        key == session_key(n)
        ss1 == IF key \notin DOMAIN ss THEN Put(ss, key, IntOf(n) \div 8) ELSE ss
        current_idx == ss1[key]
    IN  /\ n_clusters' = n
        /\ labels_list' = labels
        /\ cluster_to_tokens' = d
        /\ new_index_old_index' = table
        /\ exc' = IF current_idx \in DOMAIN table THEN "none" ELSE "KeyError"
        /\ session_state' = RemoveStaleWidgets(ss1, {key})

\* st.session_state[session_key] as the last run left it
cluster_idx == session_state[session_key(n_clusters)]

\* the page is opened: the first run, with the default n_clusters
FirstRun ==
    /\ last_event = "none"
    /\ ScriptRun(default_n_clusters, session_state)
    /\ last_event' = "open"
    /\ UNCHANGED <<idx_before, moved, clusters, kpc, renderVars>>

\* the user picks another entry of 'Select number of clusters'
SelectNClusters(k) ==
    /\ last_event # "none"
    /\ k \in DOMAIN clusters
    /\ k # n_clusters
    /\ ScriptRun(k, session_state)
    /\ last_event' = "select_n"
    /\ idx_before' = cluster_idx
    /\ UNCHANGED <<moved, clusters, kpc, renderVars>>

\* the user picks another entry of 'Select cluster index'
SelectClusterIdx(i) ==
    /\ last_event # "none"
    /\ i \in 0..(IntOf(n_clusters) - 1)
    /\ i # cluster_idx
    /\ ScriptRun(n_clusters, Put(session_state, session_key(n_clusters), i))
    /\ last_event' = "select_idx"
    /\ idx_before' = cluster_idx
    /\ UNCHANGED <<moved, clusters, kpc, renderVars>>

\* 'Previous cluster' (or ArrowLeft) is pressed
PrevCluster ==
    /\ last_event # "none"
    /\ ScriptRun(n_clusters, prev_cluster(session_state, n_clusters))
    /\ last_event' = "prev"
    /\ idx_before' = cluster_idx
    /\ moved' = IF prev_cluster(session_state, n_clusters) # session_state
                THEN moved \cup {n_clusters} ELSE moved
    /\ UNCHANGED <<clusters, kpc, renderVars>>

\* 'Next cluster' (or ArrowRight) is pressed
NextCluster ==
    /\ last_event # "none"
    /\ ScriptRun(n_clusters, next_cluster(session_state, n_clusters))
    /\ last_event' = "next"
    /\ idx_before' = cluster_idx
    /\ moved' = IF next_cluster(session_state, n_clusters) # session_state
                THEN moved \cup {n_clusters} ELSE moved
    /\ UNCHANGED <<clusters, kpc, renderVars>>

----------------------------------------------------------------------------
(* Specifications *)

RenderIdle ==
    /\ tokens = <<>> /\ max_len = 1 /\ html_out = <<>> /\ rpc = "idle"

RankIdle ==
    /\ labels_list = <<>> /\ cluster_to_tokens = <<>>
    /\ new_index_old_index = NoTable /\ kpc = "idle"

UIIdle ==
    /\ clusters = [k \in {} |-> <<>>] /\ n_clusters = <<>>
    /\ session_state = [k \in {} |-> 0] /\ exc = "none"
    /\ last_event = "idle" /\ idx_before = 0 /\ moved = {}

\* tokens_to_html called on the token sequences with every max_len, and on
\* the single tokens with the default max_len, as line 140 calls it
InitRender ==
    /\ \/ tokens \in SeqInputs /\ max_len \in 1..MaxMaxLen
       \/ tokens \in TokenInputs /\ max_len = DefaultMaxLen
    /\ html_out = <<>>
    /\ rpc = "call"
    /\ RankIdle /\ UIIdle

SpecRender == InitRender /\ [][Render]_vars

\* the ranker run on every label list
InitRank ==
    /\ labels_list \in SeqsUpTo(0..MaxLabel, MaxSamples)
    /\ cluster_to_tokens = <<>>
    /\ new_index_old_index = NoTable
    /\ kpc = "load"
    /\ exc = "none"
    /\ clusters = [k \in {} |-> <<>>] /\ n_clusters = <<>>
    /\ session_state = [k \in {} |-> 0]
    /\ last_event = "idle" /\ idx_before = 0 /\ moved = {}
    /\ RenderIdle

NextRank == GroupStep \/ RankStep

SpecRank == InitRank /\ [][NextRank]_vars

\* a session of the page over every cluster document
InitUI ==
    /\ clusters \in ClusterDocuments
    /\ n_clusters = <<>>
    /\ session_state = [k \in {} |-> 0]
    /\ exc = "none"
    /\ last_event = "none" /\ idx_before = 0 /\ moved = {}
    /\ labels_list = <<>> /\ cluster_to_tokens = <<>>
    /\ new_index_old_index = NoTable /\ kpc = "idle"
    /\ RenderIdle

NextUI ==
    \/ FirstRun
    \/ \E k \in UIKeys : SelectNClusters(k)
    \/ \E i \in 0..(IntOf(n_clusters) - 1) : SelectClusterIdx(i)
    \/ PrevCluster
    \/ NextCluster

SpecUI == InitUI /\ [][NextUI]_vars

----------------------------------------------------------------------------
(* Reading an html value back *)

StartsWithEllipsis(h) == h # <<>> /\ h[1] = ELLIPSIS

Body(h) == IF StartsWithEllipsis(h) THEN Tail(h) ELSE h

\* The bordered cells of h, in order: each cell's background, its content
\* and the number of <br> that follow it.  Text that is no sequence of
\* cells gives a cell whose background is "malformed".
RECURSIVE ParseCells(_)
ParseCells(h) ==
    IF h = <<>> THEN <<>>
    ELSE IF \/ Len(h) < 5
            \/ h[1] # SPAN_BORDER \/ h[2] # BACKGROUND \/ h[4] # PRE_WRAP
            \/ \A j \in 5..Len(h) : h[j] # SPAN_END
         THEN <<[bg |-> "malformed", content |-> h, brs |-> 0]>>
         ELSE LET close == CHOOSE j \in 5..Len(h) :
                               h[j] = SPAN_END /\ \A k \in 5..(j - 1) : h[k] # SPAN_END
                  rest == SubSeq(h, close + 1, Len(h))
                  nbr == CHOOSE n \in 0..Len(rest) :
                             /\ \A k \in 1..n : rest[k] = BR
                             /\ n = Len(rest) \/ rest[n + 1] # BR
              IN  <<[bg |-> h[3], content |-> SubSeq(h, 5, close - 1), brs |-> nbr]>>
                  \o ParseCells(SubSeq(rest, nbr + 1, Len(rest)))

Cells == ParseCells(Body(html_out))

IsPlaceholder == html_out = <<PLACEHOLDER>>

\* the tokens the call was asked to show: all of them, or the last max_len
Shown == IF Len(tokens) > max_len THEN max_len ELSE Len(tokens)
ShownToken(i) == tokens[Len(tokens) - Shown + i]

IsLineBreaks(token) == \A j \in 1..Len(token) : token[j] \in NewlineChars

\* the escaped form of one character
EscOf(c) ==
    CASE c = "$" -> <<"\\", "$">>
      [] c = "_" -> <<"\\", "_">>
      [] c = "*" -> <<"\\", "*">>
      [] c = BACKTICK -> <<"\\", BACKTICK>>
      [] c = "&" -> <<"&", "a", "m", "p", ";">>
      [] OTHER -> <<c>>

SinglePass(token) == Flatten([j \in 1..Len(token) |-> EscOf(token[j])])

\* the inverse of the escaping
RECURSIVE Unescape(_)
Unescape(s) ==
    IF s = <<>> THEN <<>>
    ELSE IF Len(s) >= 2 /\ s[1] = "\\" /\ s[2] \in {"$", "_", "*", BACKTICK}
         THEN <<s[2]>> \o Unescape(SubSeq(s, 3, Len(s)))
    ELSE IF Len(s) >= 5 /\ SubSeq(s, 1, 5) = <<"&", "a", "m", "p", ";">>
         THEN <<"&">> \o Unescape(SubSeq(s, 6, Len(s)))
    ELSE <<Head(s)>> \o Unescape(Tail(s))

\* the five replacements of lines 35-39 and the orders they can be applied in
Replacements == <<"$", "&", "_", "*", BACKTICK>>
Orders == {p \in [1..5 -> 1..5] : \A i, j \in 1..5 : p[i] = p[j] => i = j}

RECURSIVE ReplaceInOrder(_, _, _)
ReplaceInOrder(token, p, i) ==
    IF i > 5 THEN token
    ELSE ReplaceInOrder(Replace(token, Replacements[p[i]], EscOf(Replacements[p[i]])), p, i + 1)

----------------------------------------------------------------------------
(* Claims about tokens_to_html *)

C4_Truncation ==
    (rpc = "done" /\ ~HasCloseTag(Flatten(tokens))) =>
        /\ StartsWithEllipsis(html_out) <=> Len(tokens) > max_len
        /\ Len(Cells) = Shown
        /\ \A i \in 1..Shown :
              /\ Cells[i].bg \in {"white", "#FF9999"}
              /\ IF IsLineBreaks(ShownToken(i))
                 THEN Cells[i].content = Repeat(GLYPH, Len(ShownToken(i)))
                 ELSE Unescape(Cells[i].content) = ShownToken(i)

\* three tokens, max_len 2: the ellipsis and the last two tokens
C4_Witness ==
    /\ rpc = "done" /\ Len(tokens) = 3 /\ max_len = 2
    /\ tokens[1] = <<"a", "$">> /\ tokens[2] = <<"a">> /\ tokens[3] = <<"\n">>
    /\ StartsWithEllipsis(html_out) /\ Len(Cells) = 2

\* C5 as stated: a token of n line-break characters gives n cells of one
\* glyph each, followed by n line breaks.
C5_OneCellPerGlyph ==
    (rpc = "done" /\ Len(tokens) = 1 /\ tokens[1] # <<>> /\ IsLineBreaks(tokens[1])) =>
        LET n == Len(tokens[1]) IN
        /\ Len(Cells) = n
        /\ \A i \in 1..Len(Cells) :
              /\ Cells[i].content = <<GLYPH>>
              /\ Cells[i].brs = IF i = Len(Cells) THEN n ELSE 0

\* C5 amended: a token of n line-break characters gives ONE bordered cell
\* that holds the n glyphs, followed by n line breaks.
C5_OneCellPerToken ==
    (rpc = "done" /\ ~IsPlaceholder) =>
        /\ Len(Cells) = Shown
        /\ \A i \in 1..Shown :
              IsLineBreaks(ShownToken(i)) =>
                  /\ Cells[i].content = Repeat(GLYPH, Len(ShownToken(i)))
                  /\ Cells[i].brs = Len(ShownToken(i))

\* the token "\r\n": one cell of two glyphs, two line breaks
C5_Witness ==
    /\ rpc = "done" /\ tokens = << <<"\r", "\n">> >>
    /\ Len(Cells) = 1
    /\ Cells[1].content = <<GLYPH, GLYPH>> /\ Cells[1].brs = 2

\* C6: the cell of a token that is not made of line breaks holds the token
\* with each character escaped on its own, and the five replacements give
\* that same content in every order.
C6_SinglePassEscape ==
    (rpc = "done" /\ ~IsPlaceholder) =>
        \A i \in 1..Min(Shown, Len(Cells)) :
            ~IsLineBreaks(ShownToken(i)) =>
                /\ Cells[i].content = SinglePass(ShownToken(i))
                /\ Cells[i].brs = 0
                /\ \A p \in Orders : ReplaceInOrder(ShownToken(i), p, 1) = Cells[i].content

\* the token "&$_": every character escaped, none twice
C6_Witness ==
    /\ rpc = "done" /\ tokens = << <<"&", "$", "_">> >>
    /\ Len(Cells) = 1
    /\ Cells[1].content = <<"&", "a", "m", "p", ";", "\\", "$", "\\", "_">>

----------------------------------------------------------------------------
(* Claims about the ranker *)

Labels == {labels_list[i] : i \in 1..Len(labels_list)}
GroupSize(l) == Cardinality({i \in 1..Len(labels_list) : labels_list[i] = l})
FirstSeen(l) == CHOOSE i \in 1..Len(labels_list) :
                    labels_list[i] = l /\ \A j \in 1..(i - 1) : labels_list[j] # l

\* C2: for a non-empty label list the rank table maps the ranks 0..K-1, K
\* the number of distinct labels, one-to-one onto the distinct labels, and
\* no group is larger than the group of the label at rank 0.
C2_RankBijection ==
    (kpc = "ranked" /\ labels_list # <<>>) =>
        /\ DOMAIN new_index_old_index = 0..(Cardinality(Labels) - 1)
        /\ {new_index_old_index[r] : r \in DOMAIN new_index_old_index} = Labels
        /\ \A r, q \in DOMAIN new_index_old_index :
              new_index_old_index[r] = new_index_old_index[q] => r = q
        /\ \A l \in Labels : GroupSize(new_index_old_index[0]) >= GroupSize(l)

\* three labels; the largest group is the one seen last
C2_Witness ==
    /\ kpc = "ranked" /\ labels_list = <<0, 1, 2, 2>>
    /\ new_index_old_index[0] = 2
    /\ DOMAIN new_index_old_index = 0..2

\* C3: ranks follow non-increasing group size, and of two labels with
\* groups of equal size the one seen first in the label list has the
\* smaller rank.
C3_StableDescending ==
    kpc = "ranked" =>
        \A r, q \in DOMAIN new_index_old_index :
            r < q =>
                LET a == new_index_old_index[r]
                    b == new_index_old_index[q]
                IN  /\ a \in Labels /\ b \in Labels
                    /\ GroupSize(a) >= GroupSize(b)
                    /\ GroupSize(a) = GroupSize(b) => FirstSeen(a) < FirstSeen(b)

\* two groups of two; label 1 is seen first and gets rank 0
C3_Witness ==
    /\ kpc = "ranked" /\ labels_list = <<1, 0, 0, 1>>
    /\ new_index_old_index = [r \in 0..1 |-> IF r = 0 THEN 1 ELSE 0]

\* C7 as stated: on an empty label list the ranker fails with InvalidInput
\* and returns no rank table.
C7_EmptyRejected ==
    (labels_list = <<>> /\ kpc = "ranked") => exc = "InvalidInput"

----------------------------------------------------------------------------
(* Claims about the navigation *)

Started == last_event \in {"open", "select_n", "select_idx", "prev", "next"}

C9_Clamped ==
    Started =>
        /\ cluster_idx \in 0..(IntOf(n_clusters) - 1)
        /\ last_event = "prev" =>
              cluster_idx = IF idx_before = 0 THEN 0 ELSE idx_before - 1
        /\ last_event = "next" =>
              cluster_idx = IF idx_before = IntOf(n_clusters) - 1
                            THEN idx_before ELSE idx_before + 1

\* next pressed at the last index, prev having been pressed at index 0 before
C9_Witness ==
    /\ last_event = "next" /\ n_clusters = <<1, 0>>
    /\ idx_before = 9 /\ cluster_idx = 9
    /\ n_clusters \in moved

\* C10 as stated: the current index is always a rank of the rank table, so
\* line 132 never raises, also with fewer than n_clusters distinct labels.
C10_IndexIsRank ==
    (Started /\ \A k \in DOMAIN clusters : clusters[k][1] # <<>>) =>
        /\ cluster_idx \in DOMAIN new_index_old_index
        /\ exc = "none"

====
